---- MODULE Spec2Model ----
(***************************************************************************)
(* Model of CADETProcess/processModel/unitOperation.py: one unit operation *)
(* (UnitBaseClass and its subtypes MixerSplitter, Source, Sink), its       *)
(* validated attributes, its binding model, its output_state and the       *)
(* flow-rate records of its destination edges.                             *)
(*                                                                         *)
(* Numbers.  Fractions of output_state are integers counted in units of    *)
(* 1/Den, so the Python value 1 is Den, 0.5 is Den/2 when Den is even, and *)
(* "sum(state) != 1" is "Sum(state) # Den".  flow_rate is an integer, and  *)
(* an edge's flow_rate, the product output_state[index] * flow_rate, is    *)
(* therefore counted in units of 1/Den as well.  Floating-point rounding   *)
(* is not modelled.                                                        *)
(*                                                                         *)
(* Values handed to a setter are tagged records [t, i, s]: t = "int" (the  *)
(* integer i), "seq" (the list s), "bool" (i = 1 is True), "none" (None),  *)
(* "params" (the binding-model parameter mapping number i).                *)
(***************************************************************************)
EXTENDS Integers, Sequences, FiniteSets, TLC

\* ------------------------------------------------------------- bounds
MaxDest == 2      \* most destinations the orchestrator wires to the unit
MaxFlow == 1      \* largest flow_rate written
MaxComp == 2      \* largest n_comp
Den == 2          \* resolution of the fractions: 1/Den

VARIABLES
    cls,             \* the unit's subtype (type(self).__name__)
    n_comp,          \* self.n_comp
    flow_rate,       \* self.flow_rate
    lin_gradient,    \* self.lin_gradient (declared by Source only)
    binding_model,   \* self._binding_model
    output_state,    \* self._output_state
    destinations,    \* self.destinations, in insertion order: edge records
    last             \* the last call made on the unit: its name, its argument
                     \* (tag t, integer i, length n of a list) and how it ended

vars == <<cls, n_comp, flow_rate, lin_gradient, binding_model, output_state,
          destinations, last>>

\* ------------------------------------------------------------- values
OK == "ok"
CADETProcessError == "CADETProcessError"
IndexError == "IndexError"
TypeError == "TypeError"
ValidationError == "ValidationError"

IntVal(i) == [t |-> "int", i |-> i, s |-> <<>>]
SeqVal(s) == [t |-> "seq", i |-> 0, s |-> s]
BoolVal(b) == [t |-> "bool", i |-> IF b THEN 1 ELSE 0, s |-> <<>>]
ParamsVal(p) == [t |-> "params", i |-> p, s |-> <<>>]
NoneVal == [t |-> "none", i |-> 0, s |-> <<>>]

RECURSIVE Sum(_)
Sum(s) == IF s = <<>> THEN 0 ELSE Head(s) + Sum(Tail(s))

\* The unit as one record: what a method reads and writes through self.
Self ==
    [cls |-> cls, n_comp |-> n_comp, flow_rate |-> flow_rate,
     lin_gradient |-> lin_gradient, binding_model |-> binding_model,
     output_state |-> output_state, destinations |-> destinations]

\* ------------------------------------------------------------- classes
Classes == {"MixerSplitter", "Source", "Sink"}

\* cls._parameters
Parameters(c) ==
    IF c = "Source" THEN <<"flow_rate", "lin_gradient">> ELSE <<"flow_rate">>

\* NoBinding(): the null binding model.  Its n_comp is 0, never a unit's.
NoBinding == [variant |-> "NoBinding", n_comp |-> 0, parameters |-> 0, isBinding |-> TRUE]

\* UnitBaseClass.__init__(n_comp, name), with the attributes' defaults.
Construct(c, n) ==
    [cls |-> c, n_comp |-> n, flow_rate |-> 0, lin_gradient |-> FALSE,
     binding_model |-> NoBinding, output_state |-> <<>>, destinations |-> <<>>]

\* ------------------------------------------------------------- update_flow_rate
\* for index, datadict in enumerate(self.destinations.values()):
\*     datadict['flow_rate'] = self.output_state[index] * self.flow_rate
\* An index past the end of output_state raises IndexError there, after the
\* earlier edges were written.
update_flow_rate(u) ==
    LET n == Len(u.destinations)
        m == Len(u.output_state)
    IN  [result |-> IF m < n THEN IndexError ELSE OK,
         u |-> [u EXCEPT !.destinations =
                   [k \in 1..n |->
                      IF k <= m
                      THEN [flow_rate |-> u.output_state[k] * u.flow_rate]
                      ELSE u.destinations[k]]]]

\* ------------------------------------------------------------- output_state
\* The one-hot list with the 1 written one place too far.
OneAt_shifted(n, state) ==
    LET pos == IF state < 0 THEN n + state + 2 ELSE state + 2
    IN  [k \in 1..n |-> IF k = pos THEN Den ELSE 0]

\* [0] * state_length with output_state[state] = 1; Python counts a negative
\* index from the end.  Only called with -n <= state < n.
OneAt(n, state) ==
    LET pos == IF state < 0 THEN n + state + 1 ELSE state + 1
    IN  [k \in 1..n |-> IF k = pos THEN Den ELSE 0]

\* The setter with the test of the sum left out: any list of the right
\* length is stored.
output_state_setter_no_sum_test(u, state) ==
    LET state_length == Len(u.destinations)
        stored(os) == update_flow_rate([u EXCEPT !.output_state = os])
        raise(e) == [result |-> e, u |-> u]
    IN  IF state.t = "int"
        THEN IF state.i >= state_length
             THEN raise(CADETProcessError)
             ELSE IF state.i < 0 - state_length
                  THEN raise(IndexError)
                  ELSE stored([k \in 1..state_length |->
                                 IF k = (IF state.i < 0 THEN state_length + state.i + 1
                                         ELSE state.i + 1)
                                 THEN Den ELSE 0])
        ELSE IF Len(state.s) # state_length
             THEN raise(CADETProcessError)
             ELSE stored(state.s)

\* UnitBaseClass.output_state (setter)
output_state_setter(u, state) ==
    LET state_length == Len(u.destinations)
        stored(os) == update_flow_rate([u EXCEPT !.output_state = os])
        raise(e) == [result |-> e, u |-> u]
    IN  IF state.t = "int"
        THEN IF state.i >= state_length
             THEN raise(CADETProcessError)
             ELSE IF state.i < 0 - state_length
                  THEN raise(IndexError)
                  ELSE stored(OneAt(state_length, state.i))
        ELSE IF Len(state.s) # state_length
             THEN raise(CADETProcessError)
             ELSE IF Sum(state.s) # Den
                  THEN raise(CADETProcessError)
                  ELSE stored(state.s)

\* ------------------------------------------------------------- attributes
\* UnsignedFloat: a number that is not negative.
UnsignedFloatValid(value) == value.t = "int" /\ value.i >= 0

\* Bool: a bool.
BoolValid(value) == value.t = "bool"

\* flow_rate = UnsignedFloat(default=0.0): the write validates and stores,
\* and does nothing else.
flow_rate_setter(u, value) ==
    IF UnsignedFloatValid(value)
    THEN [result |-> OK, u |-> [u EXCEPT !.flow_rate = value.i]]
    ELSE [result |-> ValidationError, u |-> u]

\* lin_gradient = Bool(default=False), declared by Source.
lin_gradient_setter(u, value) ==
    IF BoolValid(value)
    THEN [result |-> OK, u |-> [u EXCEPT !.lin_gradient = (value.i = 1)]]
    ELSE [result |-> ValidationError, u |-> u]

\* setattr(self, param, value) for a declared parameter name.
SetAttr(u, param, value) ==
    IF param = "flow_rate"
    THEN flow_rate_setter(u, value)
    ELSE lin_gradient_setter(u, value)

\* getattr(self, param) for a declared parameter name.
GetAttr(u, param) ==
    IF param = "flow_rate" THEN IntVal(u.flow_rate) ELSE BoolVal(u.lin_gradient)

\* ------------------------------------------------------------- binding_model
\* The setter with the comparison of the component counts left out.
binding_model_setter_no_n_comp_test(u, bm) ==
    IF ~bm.isBinding
    THEN [result |-> TypeError, u |-> u]
    ELSE [result |-> OK, u |-> [u EXCEPT !.binding_model = bm]]

\* UnitBaseClass.binding_model (setter)
binding_model_setter(u, bm) ==
    IF ~bm.isBinding
    THEN [result |-> TypeError, u |-> u]
    ELSE IF bm.n_comp # u.n_comp /\ bm.variant # "NoBinding"
         THEN [result |-> CADETProcessError, u |-> u]
         ELSE [result |-> OK, u |-> [u EXCEPT !.binding_model = bm]]

\* binding_model.parameters = value: the binding model stores its mapping.
binding_parameters_setter(bm, value) == [bm EXCEPT !.parameters = value.i]

\* ------------------------------------------------------------- parameters
\* A mapping is a sequence of entries [key, value] with distinct keys, in
\* the dict's order.
Keys(m) == {m[k].key : k \in 1..Len(m)}
Get(m, key) == (CHOOSE k \in 1..Len(m) : m[k].key = key)
Value(m, key) == m[Get(m, key)].value

\* parameters.pop(key): the mapping without that entry.
RECURSIVE Pop(_, _)
Pop(m, key) ==
    IF m = <<>> THEN <<>>
    ELSE IF Head(m).key = key THEN Tail(m)
         ELSE <<Head(m)>> \o Pop(Tail(m), key)

\* UnitBaseClass.parameters (getter)
parameters_getter(u) ==
    LET names == Parameters(u.cls)
        own == [k \in 1..Len(names) |->
                  [key |-> names[k], value |-> GetAttr(u, names[k])]]
        bm == IF u.binding_model.variant # "NoBinding"
              THEN <<[key |-> "binding_model",
                      value |-> ParamsVal(u.binding_model.parameters)]>>
              ELSE <<>>
        os == IF u.cls # "Sink"
              THEN <<[key |-> "output_state", value |-> SeqVal(u.output_state)]>>
              ELSE <<>>
    IN  own \o bm \o os

\* for param, value in parameters.items(): ... of the parameters setter.
RECURSIVE ApplyItems(_, _)
ApplyItems(u, items) ==
    IF items = <<>>
    THEN [result |-> OK, u |-> u]
    ELSE LET param == Head(items).key
             value == Head(items).value
         IN  IF \A k \in 1..Len(Parameters(u.cls)) : Parameters(u.cls)[k] # param
             THEN [result |-> CADETProcessError, u |-> u]
             ELSE IF value.t = "none"
                  THEN ApplyItems(u, Tail(items))
                  ELSE LET r == SetAttr(u, param, value)
                       IN  IF r.result # OK THEN r
                           ELSE ApplyItems(r.u, Tail(items))

\* The setter with the remaining entries applied before the output_state
\* entry.
parameters_setter_items_first(u, parameters) ==
    LET hasBm == "binding_model" \in Keys(parameters)
        u1 == IF hasBm
              THEN [u EXCEPT !.binding_model =
                       binding_parameters_setter(u.binding_model,
                                                 Value(parameters, "binding_model"))]
              ELSE u
        p1 == Pop(parameters, "binding_model")
        hasOs == "output_state" \in Keys(p1)
        r2 == ApplyItems(u1, Pop(p1, "output_state"))
    IN  IF r2.result # OK \/ ~hasOs THEN r2
        ELSE output_state_setter(r2.u, Value(p1, "output_state"))

\* UnitBaseClass.parameters (setter)
parameters_setter(u, parameters) ==
    LET hasBm == "binding_model" \in Keys(parameters)
        u1 == IF hasBm
              THEN [u EXCEPT !.binding_model =
                       binding_parameters_setter(u.binding_model,
                                                 Value(parameters, "binding_model"))]
              ELSE u
        p1 == Pop(parameters, "binding_model")
        hasOs == "output_state" \in Keys(p1)
        r2 == IF hasOs
              THEN output_state_setter(u1, Value(p1, "output_state"))
              ELSE [result |-> OK, u |-> u1]
        p2 == Pop(p1, "output_state")
    IN  IF r2.result # OK THEN r2 ELSE ApplyItems(r2.u, p2)

\* ------------------------------------------------------------- Init, Next
Outcome(ret, op, arg, bm) ==
    LET r == ret
    IN  /\ cls' = r.u.cls
        /\ n_comp' = r.u.n_comp
        /\ flow_rate' = r.u.flow_rate
        /\ lin_gradient' = r.u.lin_gradient
        /\ binding_model' = r.u.binding_model
        /\ output_state' = r.u.output_state
        /\ destinations' = r.u.destinations
        /\ last' = [op |-> op, t |-> arg.t, i |-> arg.i, n |-> Len(arg.s), bm |-> bm,
                    keys |-> IF arg.t = "map" THEN Keys(arg.s) ELSE {},
                    result |-> r.result]

\* The values the calls are made with.
FracValues == (0 - 1)..(Den + 1)
FracSeqs == UNION {[1..n -> FracValues] : n \in 0..MaxDest}
StateArgs ==
    {IntVal(i) : i \in (0 - MaxDest - 1)..MaxDest} \cup {SeqVal(s) : s \in FracSeqs}
FlowArgs == {IntVal(i) : i \in (0 - 1)..MaxFlow}
BindingArgs ==
    {NoBinding}
    \cup {[variant |-> "Langmuir", n_comp |-> n, parameters |-> 0, isBinding |-> TRUE] :
            n \in 1..MaxComp}
    \cup {[variant |-> "object", n_comp |-> 0, parameters |-> 0, isBinding |-> FALSE]}

\* The mappings written to parameters: an optional binding_model entry, an
\* optional output_state entry, and the entries of flow_rate and
\* lin_gradient in either order (lin_gradient is declared by Source alone).
MapStateArgs == {IntVal(0), SeqVal(<<Den>>), SeqVal(<<0, Den>>), SeqVal(<<Den, Den>>)}
MapFlowEntries ==
    {[key |-> "flow_rate", value |-> v] : v \in {NoneVal, IntVal(0 - 1), IntVal(MaxFlow)}}
MapLinEntries == {[key |-> "lin_gradient", value |-> BoolVal(TRUE)]}
MapItems ==
    {<<>>}
    \cup {<<e>> : e \in MapFlowEntries \cup MapLinEntries}
    \cup {<<e, f>> : e \in MapFlowEntries, f \in MapLinEntries}
    \cup {<<f, e>> : e \in MapFlowEntries, f \in MapLinEntries}
MapBinding == {<<>>, <<[key |-> "binding_model", value |-> ParamsVal(1)]>>}
MapState == {<<>>} \cup {<<[key |-> "output_state", value |-> v]>> : v \in MapStateArgs}
ParameterMaps == {items \o bm \o os : items \in MapItems, bm \in MapBinding, os \in MapState}

Init ==
    /\ cls \in Classes
    /\ n_comp \in 1..MaxComp
    /\ flow_rate = 0
    /\ lin_gradient = FALSE
    /\ binding_model = NoBinding
    /\ output_state = <<>>
    /\ destinations = <<>>
    /\ last = [op |-> "__init__", t |-> "none", i |-> 0, n |-> 0, bm |-> NoBinding,
               keys |-> {}, result |-> OK]

\* Whether the mapping m holds a key that the subtype c does not declare.
Undeclared(c, m) ==
    \E k \in 1..Len(m) :
        /\ m[k].key \notin {"binding_model", "output_state"}
        /\ \A j \in 1..Len(Parameters(c)) : Parameters(c)[j] # m[k].key

\* What last keeps of a mapping written to parameters: the number of its
\* entries, its keys, and i = 1 when it holds an undeclared key.
MapVal(c, m) == [t |-> "map", i |-> IF Undeclared(c, m) THEN 1 ELSE 0, s |-> m]

\* unit.output_state = state
SetOutputState ==
    /\ \E state \in StateArgs :
         Outcome(output_state_setter(Self, state), "output_state", state, NoBinding)

\* unit.flow_rate = value
SetFlowRate ==
    /\ \E value \in FlowArgs :
         Outcome(flow_rate_setter(Self, value), "flow_rate", value, NoBinding)

\* unit.lin_gradient = value, on a Source
SetLinGradient ==
    /\ cls = "Source"
    /\ \E value \in {BoolVal(TRUE), BoolVal(FALSE)} :
         Outcome(lin_gradient_setter(Self, value), "lin_gradient", value, NoBinding)

\* unit.binding_model = bm
SetBindingModel ==
    /\ \E bm \in BindingArgs :
         Outcome(binding_model_setter(Self, bm), "binding_model", NoneVal, bm)

\* unit.parameters = parameters
SetParameters ==
    /\ \E parameters \in ParameterMaps :
         Outcome(parameters_setter(Self, parameters), "parameters",
                 MapVal(cls, parameters), NoBinding)

\* unit.update_flow_rate()
UpdateFlowRate ==
    /\ Outcome(update_flow_rate(Self), "update_flow_rate", NoneVal, NoBinding)

\* The orchestrator wires a destination: a new edge record at the end of
\* unit.destinations.
AddDestination ==
    /\ Len(destinations) < MaxDest
    /\ Outcome([result |-> OK,
                u |-> [Self EXCEPT !.destinations = Append(@, [flow_rate |-> 0])]],
               "add_destination", NoneVal, NoBinding)

\* The orchestrator unwires the destination at position k.
RemoveDestination ==
    /\ destinations # <<>>
    /\ \E k \in 1..Len(destinations) :
         Outcome([result |-> OK,
                  u |-> [Self EXCEPT !.destinations =
                            SubSeq(@, 1, k - 1) \o SubSeq(@, k + 1, Len(@))]],
                 "remove_destination", IntVal(k - 1), NoBinding)

Next ==
    \/ SetOutputState
    \/ SetFlowRate
    \/ SetLinGradient
    \/ SetBindingModel
    \/ SetParameters
    \/ UpdateFlowRate
    \/ AddDestination
    \/ RemoveDestination

Spec == Init /\ [][Next]_vars

\* The flow distribution alone, on a MixerSplitter.
InitFlow == Init /\ cls = "MixerSplitter" /\ n_comp = 1

NextFlow ==
    \/ SetOutputState
    \/ SetFlowRate
    \/ UpdateFlowRate
    \/ AddDestination
    \/ RemoveDestination

SpecFlow == InitFlow /\ [][NextFlow]_vars

\* The flow distribution of a MixerSplitter together with the writes to its
\* parameters.
NextWired ==
    \/ SetOutputState
    \/ SetFlowRate
    \/ SetParameters
    \/ AddDestination
    \/ RemoveDestination

SpecWired == InitFlow /\ [][NextWired]_vars

\* A wired MixerSplitter configured through its parameters and its
\* flow_rate.
NextParams ==
    \/ SetFlowRate
    \/ SetParameters
    \/ AddDestination
    \/ RemoveDestination

SpecParams == InitFlow /\ [][NextParams]_vars

\* The unit of any subtype before the orchestrator wires it: its attributes,
\* its binding model and its parameters.
NextUnit ==
    \/ SetFlowRate
    \/ SetLinGradient
    \/ SetBindingModel
    \/ SetParameters

SpecUnit == Init /\ [][NextUnit]_vars

\* ------------------------------------------------------------- claims
NDest == Len(destinations)

\* Every edge carries flow_rate * output_state[k], k its place in destinations.
EdgesFollow ==
    /\ Len(output_state) = NDest
    /\ \A k \in 1..NDest : destinations[k].flow_rate = flow_rate * output_state[k]

\* C1: on a unit with destinations, a successful output_state assignment
\* leaves every edge with flow_rate * output_state[k], and a successful
\* flow_rate assignment made while that holds leaves it holding.
C1_EdgeFlowRateFollows ==
    [][/\ (last'.op = "output_state" /\ last'.result = OK /\ NDest >= 1) => EdgesFollow'
       /\ (last'.op = "flow_rate" /\ last'.result = OK /\ NDest >= 1 /\ EdgesFollow)
              => EdgesFollow']_vars

\* C2: under any interleaving of topology mutations and output_state
\* assignments, output_state is as long as destinations, sums to 1 when
\* there are destinations, and is empty when there are none.
C2_OutputStateShape ==
    /\ Len(output_state) = NDest
    /\ NDest > 0 => Sum(output_state) = Den
    /\ NDest = 0 => output_state = <<>>

\* An explicit list the setter must refuse: of the wrong length, or not
\* summing to 1 while there are destinations.
RefusedList(s) == Len(s) # NDest \/ (NDest > 0 /\ Sum(s) # Den)

\* C3: assigning output_state a list of the wrong length, or one that does
\* not sum to 1 while there are destinations, raises CADETProcessError and
\* leaves output_state and every edge's flow_rate as they were.
C3_RefusedListChangesNothing ==
    \A s \in FracSeqs :
        RefusedList(s) =>
            LET r == output_state_setter(Self, SeqVal(s))
            IN  /\ r.result = CADETProcessError
                /\ r.u.output_state = output_state
                /\ r.u.destinations = destinations

\* C3's case: a list of the right length that does not sum to 1 was just
\* refused on a unit whose edges carry a flow from an earlier assignment.
C3_Witness ==
    /\ last.op = "output_state" /\ last.t = "seq" /\ last.result = CADETProcessError
    /\ NDest = MaxDest /\ last.n = NDest
    /\ Len(output_state) = NDest
    /\ \E k \in 1..NDest : destinations[k].flow_rate > 0

\* The list of n fractions with 1 at index i (counted from 0), 0 elsewhere.
OneHot(n, i) == [k \in 1..n |-> IF k = i + 1 THEN Den ELSE 0]

\* C4: with n >= 1 destinations and 0 <= i < n, output_state = i ends as
\* output_state = one-hot(n, i) does: edge i gets the unit's flow_rate, every
\* other edge 0.
C4_IndexIsOneHot ==
    \A i \in 0..(NDest - 1) :
        LET r == output_state_setter(Self, IntVal(i))
            q == output_state_setter(Self, SeqVal(OneHot(NDest, i)))
        IN  /\ r = q
            /\ r.result = OK
            /\ r.u.output_state = OneHot(NDest, i)
            /\ \A k \in 1..NDest :
                 r.u.destinations[k].flow_rate = IF k = i + 1 THEN Den * flow_rate ELSE 0

\* C4's case: output_state = i was just assigned on a unit with MaxDest
\* destinations and a positive flow_rate, all of which now goes to edge i.
C4_Witness ==
    /\ last.op = "output_state" /\ last.t = "int" /\ last.result = OK
    /\ last.i >= 0 /\ NDest = MaxDest /\ flow_rate > 0
    /\ output_state = OneHot(NDest, last.i)
    /\ \A k \in 1..NDest :
         destinations[k].flow_rate = IF k = last.i + 1 THEN Den * flow_rate ELSE 0

\* C5: output_state = i with i < 0 or i >= len(destinations) raises
\* CADETProcessError and changes neither output_state nor an edge.
C5_IndexOutOfRangeRefused ==
    [][(last'.op = "output_state" /\ last'.t = "int"
            /\ (last'.i < 0 \/ last'.i >= NDest))
          => (/\ last'.result = CADETProcessError
              /\ output_state' = output_state
              /\ destinations' = destinations)]_vars

\* C6: on a unit with no destinations, output_state = [] raises nothing,
\* leaves output_state empty and touches no edge.
C6_EmptyListAccepted ==
    [][(last'.op = "output_state" /\ last'.t = "seq" /\ last'.n = 0 /\ NDest = 0)
          => (/\ last'.result = OK
              /\ output_state' = <<>>
              /\ destinations' = destinations)]_vars

\* C7: writing the mapping read from the unit's parameters to the parameters
\* of a fresh unit of the same subtype and n_comp succeeds, and the fresh
\* unit's parameters then read as the mapping written.
C7_ParametersRoundTrip ==
    LET written == parameters_getter(Self)
        r == parameters_setter(Construct(cls, n_comp), written)
    IN  /\ r.result = OK
        /\ parameters_getter(r.u) = written

\* C8: when a parameters write raises CADETProcessError for a key of the
\* mapping that the subtype does not declare, the unit is as it was before
\* the call: no other entry of the mapping has taken effect.
C8_FailedWriteChangesNothing ==
    [][(last'.op = "parameters" /\ last'.i = 1 /\ last'.result = CADETProcessError)
          => UNCHANGED <<cls, n_comp, flow_rate, lin_gradient, binding_model,
                         output_state, destinations>>]_vars

\* C9: assigning a binding model that is not the null one and whose n_comp
\* is not the unit's raises CADETProcessError and leaves the held one in
\* place; so the held binding model is the null one or has the unit's n_comp.
C9_BindingModelComponents ==
    /\ binding_model.variant = "NoBinding" \/ binding_model.n_comp = n_comp
    /\ \A bm \in BindingArgs :
         (bm.isBinding /\ bm.variant # "NoBinding" /\ bm.n_comp # n_comp) =>
             LET r == binding_model_setter(Self, bm)
             IN  /\ r.result = CADETProcessError
                 /\ r.u = Self

\* C9's case: a binding model of another component count was just refused
\* while the unit held a binding model of its own count, which it keeps.
C9_Witness ==
    /\ last.op = "binding_model" /\ last.result = CADETProcessError
    /\ last.bm.variant = "Langmuir" /\ last.bm.n_comp # n_comp
    /\ binding_model.variant = "Langmuir" /\ binding_model.n_comp = n_comp

\* C10: no accepted output_state holds a negative fraction, so no edge's
\* flow_rate is ever negative.
C10_EdgeFlowRatesNotNegative ==
    \A k \in 1..NDest : destinations[k].flow_rate >= 0

\* C11: a parameters write applies the binding_model entry first, then the
\* output_state entry together with its recomputation of the edges, and the
\* remaining entries last, in the mapping's order.  So whenever the mapping's
\* output_state entry is accepted, the edges hold (flow_rate before the
\* write) * (new fraction) whatever the remaining entries do, a flow_rate
\* entry that is stored does not reach the edges, and when the output_state
\* entry is refused the binding model has its parameters already and no
\* remaining entry has been applied.
C11_OutputStateBeforeFlowRate ==
    \A m \in ParameterMaps :
        LET r == parameters_setter(Self, m)
            os == output_state_setter(Self, Value(m, "output_state"))
        IN  "output_state" \in Keys(m) =>
              /\ os.result = OK =>
                   /\ r.u.output_state = os.u.output_state
                   /\ Len(r.u.destinations) = NDest
                   /\ \A k \in 1..NDest :
                        r.u.destinations[k].flow_rate = flow_rate * r.u.output_state[k]
                   /\ ("flow_rate" \in Keys(m) /\ r.result = OK
                         /\ Value(m, "flow_rate").t = "int")
                        => r.u.flow_rate = Value(m, "flow_rate").i
              /\ os.result # OK =>
                   /\ r.result = os.result
                   /\ r.u.flow_rate = flow_rate
                   /\ r.u.destinations = destinations
                   /\ "binding_model" \in Keys(m)
                        => r.u.binding_model.parameters = Value(m, "binding_model").i

\* C11's case: a mapping holding both output_state and flow_rate was just
\* written with success to a unit with destinations; flow_rate is the new
\* one, and an edge with a positive fraction carries 0, the product with
\* the flow_rate of before the write.
C11_Witness ==
    /\ last.op = "parameters" /\ last.result = OK
    /\ {"output_state", "flow_rate"} \subseteq last.keys
    /\ NDest >= 1 /\ Len(output_state) = NDest
    /\ flow_rate = MaxFlow
    /\ \E k \in 1..NDest :
         output_state[k] > 0 /\ destinations[k].flow_rate = 0
====
